---- MODULE Spec2Model ----
(***************************************************************************)
(* Model of the gs_schemas crate: the Registry (registry.rs), the          *)
(* coordinate algebra (coordinates.rs), the BlockId encoding               *)
(* (voxeltypes.rs) and the tiered palette storage (chunk.rs).  Each has    *)
(* its own specification: Spec, SpecCoord, SpecBlock, SpecPalette.         *)
(*                                                                         *)
(* The registry state is the triple (next_free_id, id_to_obj, name_to_id). *)
(* Every public method is one action.  `last` records the most recent call *)
(* and what it returned, so that properties can speak about results.       *)
(*                                                                         *)
(* u32 is modelled with IdBits bits instead of 32 (TLC integers are 32-bit *)
(* signed); all u32 arithmetic is done as the code does it: checked_add    *)
(* fails on overflow, a plain `+` panics when the build has overflow       *)
(* checks (debug profile) and wraps modulo 2^IdBits otherwise (release).   *)
(* usize is assumed wider than u32, so `raw_id + 32` never overflows.      *)
(***************************************************************************)
EXTENDS Integers, Sequences, FiniteSets, TLC

\* ---------------------------------------------------------------- bounds
\* width of the model's u32
IdBits == 6
\* number of allocate_id calls (direct or through push_object) explored
MaxAllocs == 3

\* ------------------------------------------------------------- constants
\* `raw_id + 32`: slots added past raw_id when the id array grows
GROW == 32

U32_MAX == 2^IdBits - 1

\* ---------------------------------------------------------------- inputs
\* RegistryName keys used by the callers (namespace is always "gs")
Names == {"a", "b"}
\* RegistryObject values: a name and a payload that tells apart two objects
\* with the same name
Objects == [name : Names, data : {0, 1}]
\* RegistryId(NonZeroU32) values passed by callers: low ids, the first id
\* beyond the first growth of the array, and the top of the id space
Ids == {1, 2, GROW + 1, U32_MAX - 1, U32_MAX}

\* Option<T>: None is <<>>, Some(x) is <<x>>
None == <<>>
Some(x) == <<x>>
is_some(o) == o /= None
unwrap(o) == o[1]

VARIABLES
    next_free_id,     \* Registry.next_free_id : u32
    id_to_obj,        \* Registry.id_to_obj : Vec<Option<Object>>, slot i at id_to_obj[i+1]
    name_to_id,       \* Registry.name_to_id : HashMap<RegistryName, RegistryId>
    overflow_checks,  \* build profile: TRUE = arithmetic overflow panics, FALSE = wraps
    panicked,         \* the thread has panicked; no further call is made
    last,             \* the most recent call and its result
    allocs,           \* number of allocate_id calls made so far
    max_issued,       \* history: greatest id returned by allocate_id/push_object
                      \*   or passed to a successful insert_object_with_id
    ever_inserted,    \* history: names of the objects successfully inserted
    exhausted,        \* history: allocate_id has failed because the counter would overflow
    call,             \* coordinates / BlockId: the most recent function call and its result
    iter,             \* coordinates: the iterator returned by InChunkRange::iter_xzy
    blocks,           \* chunk: a PaletteData<T> value
    shadow            \* chunk history: the value most recently set for each cell

\* the variables of the registry specification
reg_vars == <<next_free_id, id_to_obj, name_to_id, overflow_checks, panicked, last,
              allocs, max_issued, ever_inserted, exhausted>>
\* the variables of the coordinate and BlockId specifications
fn_vars == <<call, iter>>
\* the variables of the palette storage specification
chunk_vars == <<blocks, shadow>>

vars == <<reg_vars, fn_vars, chunk_vars>>

\* values of the variables a specification does not use
NoCall == [fn |-> "none", arg |-> <<>>, out |-> <<>>]
NoIter == [state |-> "idle", range |-> <<>>, next |-> 0, yielded |-> <<>>]
NoBlocks == [tier |-> "none", palette |-> <<>>, data |-> <<>>, fatal |-> FALSE]
FnIdle == call = NoCall /\ iter = NoIter
ChunkIdle == blocks = NoBlocks /\ shadow = <<>>

registry == <<next_free_id, id_to_obj, name_to_id>>

\* -------------------------------------------------------------- helpers
Max(a, b) == IF a >= b THEN a ELSE b

\* Vec::len
len(v) == Len(v)

\* Vec::get(i): None when i is out of bounds, Some(slot) otherwise
get(v, i) == IF i < len(v) THEN Some(v[i + 1]) ELSE None

\* Vec::resize_with(new_len, || None): truncates or pads with None
resize_with(v, new_len) ==
    IF new_len <= len(v) THEN SubSeq(v, 1, new_len)
    ELSE v \o [i \in 1..(new_len - len(v)) |-> None]

\* u32::checked_add
checked_add(x, y) == IF x + y > U32_MAX THEN None ELSE Some(x + y)

\* u32 `+` in a build without overflow checks
wrapping_add(x, y) == (x + y) % (2^IdBits)

\* HashMap::contains_key
contains_key(m, name) == name \in DOMAIN m

\* HashMap::insert
map_insert(m, name, id) == [n \in (DOMAIN m) \cup {name} |-> IF n = name THEN id ELSE m[n]]

\* bug variant: the array is resized on every call, whatever its length
needs_resize_always(v, raw_id) == TRUE

\* `self.id_to_obj.len() <= raw_id` (registry.rs:145, :165)
needs_resize(v, raw_id) == len(v) <= raw_id

\* bug variant: the occupied-slot check is missing
slot_occupied_unchecked(v, raw_id) == FALSE

\* `self.id_to_obj[raw_id].is_some()` (registry.rs:147, :167)
slot_occupied(v, raw_id) == is_some(v[raw_id + 1])

\* the id array after the growth step of push_object / insert_object_with_id
grown(v, raw_id) == IF needs_resize(v, raw_id) THEN resize_with(v, raw_id + GROW) ELSE v

\* `self.id_to_obj[raw_id] = Some(object)` (registry.rs:158, :177)
store_object(v, raw_id, obj) == [v EXCEPT ![raw_id + 1] = Some(obj)]

\* bug variant: the name is not added to the name index
index_name_forgotten(m, obj, id) == m

\* `self.name_to_id.insert(name, id)` (registry.rs:159, :178)
index_name(m, obj, id) == map_insert(m, obj.name, id)

\* bug variant: the id is wrapped without the non-zero conversion
nonzero_unchecked(x) == TRUE

\* RegistryId::try_from / NonZeroU32::try_from: fails on 0
nonzero(x) == x /= 0

Call(op, id, obj, res, ret_id, ret_obj) ==
    [op |-> op, id |-> id, obj |-> obj, res |-> res, ret_id |-> ret_id, ret_obj |-> ret_obj]

\* ----------------------------------------------------------------- Init
\* Registry::default()
Init ==
    /\ next_free_id = 1
    /\ id_to_obj = <<None>>
    /\ name_to_id = <<>>
    /\ overflow_checks \in BOOLEAN
    /\ panicked = FALSE
    /\ last = Call("default", 0, None, "Ok", 0, None)
    /\ allocs = 0
    /\ max_issued = 0
    /\ ever_inserted = {}
    /\ exhausted = FALSE
    /\ FnIdle
    /\ ChunkIdle

\* ------------------------------------------------------------ allocate_id
\* Registry::allocate_id as a function of the counter: the result and the
\* counter it leaves behind
allocate_id_fn(nfi) ==
    LET id == nfi
        sum == checked_add(nfi, 1)
    IN  IF sum = None
        THEN \* `?` on checked_add: "Maximum registry entries count exceeded"
             [res |-> "Err", id |-> 0, next_free_id |-> nfi, overflow |-> TRUE]
        ELSE IF nonzero(id)
             THEN [res |-> "Ok", id |-> id, next_free_id |-> unwrap(sum), overflow |-> FALSE]
             ELSE \* `?` on id.try_into(): the counter is already advanced
                  [res |-> "Err", id |-> 0, next_free_id |-> unwrap(sum), overflow |-> FALSE]

allocate_id ==
    /\ ~panicked
    /\ allocs < MaxAllocs
    /\ LET a == allocate_id_fn(next_free_id)
       IN  /\ next_free_id' = a.next_free_id
           /\ last' = Call("allocate_id", 0, None, a.res, a.id, None)
           /\ max_issued' = IF a.res = "Ok" THEN Max(max_issued, a.id) ELSE max_issued
           /\ exhausted' = (exhausted \/ a.overflow)
    /\ allocs' = allocs + 1
    /\ UNCHANGED <<id_to_obj, name_to_id, overflow_checks, panicked, ever_inserted>>
    /\ UNCHANGED <<fn_vars, chunk_vars>>

\* ------------------------------------------------------------ push_object
push_object(object) ==
    /\ ~panicked
    /\ allocs < MaxAllocs
    /\ allocs' = allocs + 1
    /\ UNCHANGED <<overflow_checks, fn_vars, chunk_vars>>
    /\ LET a == allocate_id_fn(next_free_id)
       IN  /\ next_free_id' = a.next_free_id
           /\ max_issued' = IF a.res = "Ok" THEN Max(max_issued, a.id) ELSE max_issued
           /\ exhausted' = (exhausted \/ a.overflow)
           /\ IF a.res = "Err"
              THEN \* `?` on allocate_id
                   /\ last' = Call("push_object", 0, Some(object), "Err", 0, None)
                   /\ UNCHANGED <<id_to_obj, name_to_id, panicked, ever_inserted>>
              ELSE LET raw_id == a.id
                       v1 == grown(id_to_obj, raw_id)
                   IN  IF ~needs_resize(id_to_obj, raw_id) /\ slot_occupied(id_to_obj, raw_id)
                       THEN \* panic!("Freshly allocated ID ... already used ...")
                            /\ panicked' = TRUE
                            /\ last' = Call("push_object", 0, Some(object), "Panic", 0, None)
                            /\ UNCHANGED <<id_to_obj, name_to_id, ever_inserted>>
                       ELSE IF contains_key(name_to_id, object.name)
                            THEN \* bail!("Object {} already exists")
                                 /\ id_to_obj' = v1
                                 /\ last' = Call("push_object", 0, Some(object), "Err", 0, None)
                                 /\ UNCHANGED <<name_to_id, panicked, ever_inserted>>
                            ELSE /\ id_to_obj' = store_object(v1, raw_id, object)
                                 /\ name_to_id' = index_name(name_to_id, object, a.id)
                                 /\ ever_inserted' = ever_inserted \cup {object.name}
                                 /\ last' = Call("push_object", 0, Some(object), "Ok", a.id, None)
                                 /\ UNCHANGED panicked

\* -------------------------------------------------- insert_object_with_id
insert_object_with_id(id, object) ==
    /\ ~panicked
    /\ UNCHANGED <<overflow_checks, allocs, exhausted, fn_vars, chunk_vars>>
    /\ LET raw_id == id
           v1 == grown(id_to_obj, raw_id)
       IN  IF ~needs_resize(id_to_obj, raw_id) /\ slot_occupied(id_to_obj, raw_id)
           THEN \* bail!("Object with ID {} already exists: {}")
                /\ last' = Call("insert_object_with_id", id, Some(object), "Err", 0, None)
                /\ UNCHANGED <<registry, panicked, max_issued, ever_inserted>>
           ELSE IF contains_key(name_to_id, object.name)
                THEN \* bail!("Object {} already exists")
                     /\ id_to_obj' = v1
                     /\ last' = Call("insert_object_with_id", id, Some(object), "Err", 0, None)
                     /\ UNCHANGED <<next_free_id, name_to_id, panicked, max_issued, ever_inserted>>
                ELSE IF id >= next_free_id /\ id + 1 > U32_MAX /\ overflow_checks
                     THEN \* `id.0.get() + 1`: attempt to add with overflow
                          /\ panicked' = TRUE
                          /\ id_to_obj' = v1
                          /\ last' = Call("insert_object_with_id", id, Some(object), "Panic", 0, None)
                          /\ UNCHANGED <<next_free_id, name_to_id, max_issued, ever_inserted>>
                     ELSE /\ next_free_id' = IF id >= next_free_id
                                             THEN wrapping_add(id, 1)
                                             ELSE next_free_id
                          /\ id_to_obj' = store_object(v1, raw_id, object)
                          /\ name_to_id' = index_name(name_to_id, object, id)
                          /\ max_issued' = Max(max_issued, id)
                          /\ ever_inserted' = ever_inserted \cup {object.name}
                          /\ last' = Call("insert_object_with_id", id, Some(object), "Ok", 0, None)
                          /\ UNCHANGED panicked

\* ---------------------------------------------------------------- lookups
\* bug variant: the slot is read one position too low
lookup_id_to_object_fn_off_by_one(v, id) ==
    LET slot == get(v, id - 1)
    IN  IF slot = None THEN None ELSE unwrap(slot)

\* Registry::lookup_id_to_object as a function of the state: Option<&Object>
lookup_id_to_object_fn(v, id) ==
    LET slot == get(v, id)
    IN  IF slot = None THEN None ELSE unwrap(slot)

\* Registry::lookup_name_to_object as a function of the state:
\* Option<(RegistryId, &Object)>, returned as the pair (Option id, Option object)
lookup_name_to_object_fn(v, m, name) ==
    IF ~contains_key(m, name) THEN <<None, None>>
    ELSE LET id == m[name]
             obj == lookup_id_to_object_fn(v, id)
         IN  IF obj = None THEN <<None, None>> ELSE <<Some(id), obj>>

lookup_name_to_object(name) ==
    /\ ~panicked
    /\ LET r == lookup_name_to_object_fn(id_to_obj, name_to_id, name)
       IN  last' = Call("lookup_name_to_object", 0, Some([name |-> name, data |-> 0]),
                        IF r[1] = None THEN "None" ELSE "Some",
                        IF r[1] = None THEN 0 ELSE unwrap(r[1]), r[2])
    /\ UNCHANGED <<registry, overflow_checks, panicked, allocs, max_issued, ever_inserted, exhausted>>
    /\ UNCHANGED <<fn_vars, chunk_vars>>

lookup_id_to_object(id) ==
    /\ ~panicked
    /\ LET r == lookup_id_to_object_fn(id_to_obj, id)
       IN  last' = Call("lookup_id_to_object", id, None,
                        IF r = None THEN "None" ELSE "Some", 0, r)
    /\ UNCHANGED <<registry, overflow_checks, panicked, allocs, max_issued, ever_inserted, exhausted>>
    /\ UNCHANGED <<fn_vars, chunk_vars>>

\* ------------------------------------------------------------------- Next
Next ==
    \/ allocate_id
    \/ \E o \in Objects : push_object(o)
    \/ \E i \in Ids, o \in Objects : insert_object_with_id(i, o)
    \/ \E n \in Names : lookup_name_to_object(n)
    \/ \E i \in Ids : lookup_id_to_object(i)

Spec == Init /\ [][Next]_vars

TypeOK ==
    /\ next_free_id \in 0..U32_MAX
    /\ len(id_to_obj) >= 1
    /\ \A i \in 1..len(id_to_obj) : id_to_obj[i] = None \/ unwrap(id_to_obj[i]) \in Objects
    /\ DOMAIN name_to_id \subseteq Names
    /\ \A n \in DOMAIN name_to_id : name_to_id[n] \in 1..U32_MAX
    /\ allocs \in 0..MaxAllocs

\* ===================================================================
\* Properties
\* ===================================================================
\* the ids of the occupied slots of the id array
OccupiedIds == {i \in 0..(len(id_to_obj) - 1) : is_some(id_to_obj[i + 1])}

\* Every step sets `last` to the call it makes, so a step is a call of method
\* m exactly when last'.op = m; the arguments of the call are in last'.
IsCall(m) == last'.op = m
IsAllocation == IsCall("allocate_id") \/ IsCall("push_object")
ArgId == last'.id
ArgObject == unwrap(last'.obj)

\* C1: whenever push_object is called with an object whose name is already
\* registered, it returns an error and next_free_id, id_to_obj (with its
\* length) and name_to_id are the same after the call as before it.
C1_PushDuplicateLeavesRegistryUnchanged ==
    [][(IsCall("push_object") /\ ArgObject.name \in DOMAIN name_to_id)
           => (last'.res = "Err" /\ registry' = registry)]_vars

\* C2: no push_object ever finds the slot of its freshly allocated id
\* occupied: the "Freshly allocated ID already used" panic is never reached.
C2_PushNeverCollides ==
    ~(last.op = "push_object" /\ last.res = "Panic")

\* C3: the two indexes agree: every occupied slot i holds an object whose
\* name maps to i, every name entry n -> i points to an occupied slot that
\* holds an object named n, and there are as many occupied slots as names.
C3_IndexesConsistent ==
    /\ \A i \in OccupiedIds :
          LET o == unwrap(id_to_obj[i + 1])
          IN  o.name \in DOMAIN name_to_id /\ name_to_id[o.name] = i
    /\ \A n \in DOMAIN name_to_id :
          /\ name_to_id[n] < len(id_to_obj)
          /\ is_some(id_to_obj[name_to_id[n] + 1])
          /\ unwrap(id_to_obj[name_to_id[n] + 1]).name = n
    /\ Cardinality(OccupiedIds) = Cardinality(DOMAIN name_to_id)

\* C3 witness: both names are registered and a later mutator call has failed
C3_Witness ==
    /\ Cardinality(DOMAIN name_to_id) = 2
    /\ last.op \in {"push_object", "insert_object_with_id"}
    /\ last.res = "Err"

\* C4: a failing insert_object_with_id leaves next_free_id, id_to_obj (with
\* its length) and name_to_id the same as before the call.
C4_FailedInsertLeavesRegistryUnchanged ==
    [][(IsCall("insert_object_with_id") /\ last'.res = "Err")
           => registry' = registry]_vars

\* C5: insert_object_with_id(id, object) returns an error exactly when slot
\* id is occupied or the object's name is registered; when it succeeds, the
\* lookup by id returns the object and the lookup by name returns (id, object).
C5_InsertErrorIffConflict ==
    [][IsCall("insert_object_with_id") =>
          /\ (last'.res = "Err") <=>
                 (\/ (ArgId < len(id_to_obj) /\ id_to_obj[ArgId + 1] /= None)
                  \/ ArgObject.name \in DOMAIN name_to_id)
          /\ (last'.res = "Ok") =>
                 /\ lookup_id_to_object_fn(id_to_obj', ArgId) = Some(ArgObject)
                 /\ lookup_name_to_object_fn(id_to_obj', name_to_id', ArgObject.name)
                        = <<Some(ArgId), Some(ArgObject)>>]_vars

\* C5 witness: an insert has succeeded in a registry that already held an
\* object, and the inserted object is found under its id
C5_Witness ==
    /\ last.op = "insert_object_with_id"
    /\ last.res = "Ok"
    /\ Cardinality(DOMAIN name_to_id) = 2
    /\ lookup_id_to_object_fn(id_to_obj, last.id) = last.obj

\* C6: once a lookup by name or by id returns an entry, the same lookup
\* returns the same entry after every later call.  (The ids whose lookup
\* returns an entry are the ids of the occupied slots; a step that leaves
\* both indexes as they are cannot change a lookup.)
C6_LookupsStable ==
    [][(id_to_obj' /= id_to_obj \/ name_to_id' /= name_to_id) =>
          /\ \A n \in Names :
                lookup_name_to_object_fn(id_to_obj, name_to_id, n) /= <<None, None>>
                    => lookup_name_to_object_fn(id_to_obj', name_to_id', n)
                           = lookup_name_to_object_fn(id_to_obj, name_to_id, n)
          /\ \A i \in OccupiedIds \ {0} :
                /\ lookup_id_to_object_fn(id_to_obj, i) /= None
                /\ lookup_id_to_object_fn(id_to_obj', i)
                       = lookup_id_to_object_fn(id_to_obj, i)]_vars

\* C6 witness: an object stored beyond the first growth of the array is
\* still there after a later call has stored a second object below it
C6_Witness ==
    /\ lookup_id_to_object_fn(id_to_obj, GROW + 1) /= None
    /\ last.op \in {"push_object", "insert_object_with_id"}
    /\ last.res = "Ok"
    /\ name_to_id[unwrap(last.obj).name] < GROW

\* C7: id 0 is never assigned: slot 0 is empty, no name maps to 0, and no
\* allocate_id or push_object call returns 0.
C7_ZeroNeverAssigned ==
    /\ id_to_obj[1] = None
    /\ \A n \in DOMAIN name_to_id : name_to_id[n] /= 0
    /\ (last.op \in {"allocate_id", "push_object"} /\ last.res = "Ok") => last.ret_id /= 0

\* C7 witness: the counter stood at 0 and allocate_id refused to hand it out
C7_Witness ==
    /\ last.op = "allocate_id"
    /\ last.res = "Err"
    /\ next_free_id = 1
    /\ max_issued = U32_MAX

\* C8: the first id handed out by a default registry is 1; every id returned
\* by allocate_id or push_object is greater than every id returned before
\* and every id passed to a successful insert_object_with_id; two
\* successful pushes in a row return consecutive ids.
C8_AllocationIncreasing ==
    [][(IsAllocation /\ last'.res = "Ok") =>
          /\ last'.ret_id > max_issued
          /\ (registry = <<1, <<None>>, <<>>>>) => last'.ret_id = 1
          /\ (IsCall("push_object") /\ last.op = "push_object" /\ last.res = "Ok")
                 => last'.ret_id = last.ret_id + 1]_vars

\* C9: when next_free_id cannot be advanced, allocate_id and push_object
\* return an error and leave the registry unchanged, and every allocate_id
\* or push_object call made after such a failure fails as well.
C9_ExhaustionAbsorbing ==
    [][(IsAllocation /\ (next_free_id = U32_MAX \/ exhausted)) =>
          /\ last'.res = "Err"
          /\ (next_free_id = U32_MAX) => registry' = registry]_vars

\* C10: the lookups leave the registry unchanged and return None for every
\* name never successfully inserted and for every id whose slot is empty or
\* lies beyond the array.
C10_LookupsPure ==
    [][/\ IsCall("lookup_name_to_object") =>
             /\ registry' = registry
             /\ last'.res \in {"None", "Some"}
             /\ (ArgObject.name \notin ever_inserted) => last'.res = "None"
       /\ IsCall("lookup_id_to_object") =>
             /\ registry' = registry
             /\ last'.res \in {"None", "Some"}
             /\ (ArgId >= len(id_to_obj) \/ id_to_obj[ArgId + 1] = None)
                    => last'.res = "None"]_vars

\* C10 witness: a lookup returned None for an id that a failed push_object
\* consumed: below the counter, inside the array, never filled
C10_Witness ==
    /\ last.op = "lookup_id_to_object"
    /\ last.res = "None"
    /\ last.id < next_free_id
    /\ last.id < len(id_to_obj)
    /\ DOMAIN name_to_id /= {}
    /\ max_issued >= last.id

\* C19: insert_object_with_id never overflows: it does not panic, and after a
\* successful insert next_free_id is greater than every occupied id.
C19_InsertSafeAtTop ==
    last.op = "insert_object_with_id" =>
        /\ last.res /= "Panic"
        /\ (last.res = "Ok") => \A i \in OccupiedIds : i < next_free_id

\* ===================================================================
\* Coordinate algebra (lib/gs_schemas/src/coordinates.rs)
\* ===================================================================
\* Length of a side of a chunk in blocks
CHUNK_DIM == 32
\* Number of blocks on the face of a chunk
CHUNK_DIM2 == CHUNK_DIM * CHUNK_DIM
\* Number of blocks in the volume of the chunk
CHUNK_DIM3 == CHUNK_DIM * CHUNK_DIM * CHUNK_DIM

\* ---------------------------------------------------------------- bounds
\* how far outside 0..CHUNK_DIM-1 the components passed to try_from reach
VecSlack == 1
\* how far past CHUNK_DIM3 - 1 the indexes passed to try_from_index reach
IndexSlack == 2
\* corners of the ranges that are iterated have components in 0..IterMax
IterMax == 2

\* bevy_math::IVec3 and BVec3
IVec3_new(x, y, z) == [x |-> x, y |-> y, z |-> z]
IVec3_splat(v) == IVec3_new(v, v, v)
IVec3_ZERO == IVec3_splat(0)
\* Chunk dimensions in blocks as an IVec3
CHUNK_DIM3V == IVec3_splat(CHUNK_DIM)
cmplt(a, b) == [x |-> a.x < b.x, y |-> a.y < b.y, z |-> a.z < b.z]
cmpge(a, b) == [x |-> a.x >= b.x, y |-> a.y >= b.y, z |-> a.z >= b.z]
cmpgt(a, b) == [x |-> a.x > b.x, y |-> a.y > b.y, z |-> a.z > b.z]
cmpeq(a, b) == [x |-> a.x = b.x, y |-> a.y = b.y, z |-> a.z = b.z]
bvec_or(a, b) == [x |-> a.x \/ b.x, y |-> a.y \/ b.y, z |-> a.z \/ b.z]
any(b) == b.x \/ b.y \/ b.z
all(b) == b.x /\ b.y /\ b.z
Min(a, b) == IF a <= b THEN a ELSE b
vec_min(a, b) == IVec3_new(Min(a.x, b.x), Min(a.y, b.y), Min(a.z, b.z))
vec_max(a, b) == IVec3_new(Max(a.x, b.x), Max(a.y, b.y), Max(a.z, b.z))

\* Result<T, E>
Ok(v) == [ok |-> TRUE, val |-> v]
Err(e) == [ok |-> FALSE, val |-> e]

\* bug variant: the upper bound is tested with > instead of >=
try_from_off_by_one(value) ==
    IF any(bvec_or(cmplt(value, IVec3_ZERO), cmpgt(value, CHUNK_DIM3V)))
    THEN Err(value)
    ELSE Ok(value)

\* impl TryFrom<IVec3> for InChunkPos
try_from(value) ==
    IF any(bvec_or(cmplt(value, IVec3_ZERO), cmpge(value, CHUNK_DIM3V)))
    THEN Err(value)
    ELSE Ok(value)

\* bug variant: the index is decoded with the y and z strides exchanged
try_from_index_xyz(idx) ==
    IF idx >= CHUNK_DIM3
    THEN Err(idx)
    ELSE Ok(IVec3_new(idx % CHUNK_DIM,
                      (idx \div CHUNK_DIM) % CHUNK_DIM,
                      (idx \div CHUNK_DIM2) % CHUNK_DIM))

\* InChunkPos::try_from_index
try_from_index(idx) ==
    IF idx >= CHUNK_DIM3
    THEN Err(idx)
    ELSE LET i == idx
         IN  Ok(IVec3_new(i % CHUNK_DIM,
                          (i \div CHUNK_DIM2) % CHUNK_DIM,
                          (i \div CHUNK_DIM) % CHUNK_DIM))

\* InChunkPos::as_index
as_index(self) == self.x + (CHUNK_DIM * self.z) + (CHUNK_DIM2 * self.y)

\* InChunkRange
InChunkRange_new(min, max) == [min |-> min, max |-> max]

\* bug variant: the corners are stored as given
from_corners_as_given(a, b) == InChunkRange_new(a, b)

\* InChunkRange::from_corners
from_corners(a, b) ==
    LET min == vec_min(a, b)
        max == vec_max(a, b)
    IN  InChunkRange_new(min, max)

\* bug variant: all() instead of any()
is_empty_all(self) == all(cmpeq(self.min, self.max))

\* InChunkRange::is_empty
is_empty(self) == any(cmpeq(self.min, self.max))

\* length of the inclusive integer range lo..=hi
range_len(lo, hi) == IF hi >= lo THEN hi - lo + 1 ELSE 0

\* number of tuples of iproduct!(min.y..=max.y, min.z..=max.z, min.x..=max.x)
iproduct_len(r) ==
    range_len(r.min.y, r.max.y) * range_len(r.min.z, r.max.z) * range_len(r.min.x, r.max.x)

\* the k-th tuple (y, z, x) of that product: the last range varies fastest
iproduct_nth(r, k) ==
    LET nz == range_len(r.min.z, r.max.z)
        nx == range_len(r.min.x, r.max.x)
    IN  <<r.min.y + (k \div (nz * nx)),
          r.min.z + ((k \div nx) % nz),
          r.min.x + (k % nx)>>

\* the closure of iter_xzy: |(y, z, x)| InChunkPos(IVec3::new(y, z, x))
iter_xzy_map(t) == LET y == t[1]
                       z == t[2]
                       x == t[3]
                   IN  IVec3_new(y, z, x)

\* ---------------------------------------------------------------- inputs
\* IVec3 values passed to try_from
VecComponents == (0 - VecSlack)..(CHUNK_DIM - 1 + VecSlack)
Vecs == [x : VecComponents, y : VecComponents, z : VecComponents]
\* usize values passed to try_from_index
Indexes == 0..(CHUNK_DIM3 - 1 + IndexSlack)
\* every InChunkPos
InChunkPositions == [x : 0..(CHUNK_DIM - 1), y : 0..(CHUNK_DIM - 1), z : 0..(CHUNK_DIM - 1)]
\* InChunkPos values used as corners: low components and the last one
CornerComponents == (0..IterMax) \cup {CHUNK_DIM - 1}
Corners == [x : CornerComponents, y : CornerComponents, z : CornerComponents]
\* corners of the ranges that are iterated
IterCorners == [x : 0..IterMax, y : 0..IterMax, z : 0..IterMax]

\* the registry variables while another specification runs: Registry::default()
RegIdle ==
    /\ next_free_id = 1
    /\ id_to_obj = <<None>>
    /\ name_to_id = <<>>
    /\ overflow_checks = FALSE
    /\ panicked = FALSE
    /\ last = Call("default", 0, None, "Ok", 0, None)
    /\ allocs = 0
    /\ max_issued = 0
    /\ ever_inserted = {}
    /\ exhausted = FALSE

FnCall(fn, arg, out) == [fn |-> fn, arg |-> arg, out |-> out]

InitCoord == RegIdle /\ FnIdle /\ ChunkIdle

\* the result of a call is recorded in `call`
CallFn(fn, arg, out) ==
    /\ call' = FnCall(fn, arg, out)
    /\ UNCHANGED <<iter, reg_vars, chunk_vars>>

\* one call is followed from a fresh state: the functions are pure, so a
\* call owes nothing to the calls before it
Fresh == call = NoCall

call_try_from ==
    /\ Fresh
    /\ \E v \in Vecs : CallFn("try_from", v, try_from(v))

call_try_from_index ==
    /\ Fresh
    /\ \E i \in Indexes : CallFn("try_from_index", i, try_from_index(i))

call_as_index ==
    /\ Fresh
    /\ \E p \in InChunkPositions : CallFn("as_index", p, as_index(p))

call_from_corners ==
    /\ Fresh
    /\ \E a \in Corners, b \in Corners : CallFn("from_corners", <<a, b>>, from_corners(a, b))

call_is_empty ==
    /\ Fresh
    /\ \E a \in Corners, b \in Corners :
          LET r == from_corners(a, b) IN CallFn("is_empty", r, is_empty(r))

\* InChunkRange::iter_xzy: the iterator is created, nothing is yielded yet
call_iter_xzy ==
    /\ Fresh
    /\ \E a \in IterCorners, b \in IterCorners :
          LET r == from_corners(a, b)
          IN  /\ call' = FnCall("iter_xzy", r, <<>>)
              /\ iter' = [state |-> "running", range |-> r, next |-> 0, yielded |-> <<>>]
              /\ UNCHANGED <<reg_vars, chunk_vars>>

\* Iterator::next on the iterator of iter_xzy
iter_next ==
    /\ iter.state = "running"
    /\ IF iter.next < iproduct_len(iter.range)
       THEN iter' = [iter EXCEPT !.next = @ + 1,
                                 !.yielded = Append(@, iter_xzy_map(iproduct_nth(iter.range, iter.next)))]
       ELSE iter' = [iter EXCEPT !.state = "done"]
    /\ UNCHANGED <<call, reg_vars, chunk_vars>>

NextCoord ==
    \/ call_try_from
    \/ call_try_from_index
    \/ call_as_index
    \/ call_from_corners
    \/ call_is_empty
    \/ call_iter_xzy
    \/ iter_next

SpecCoord == InitCoord /\ [][NextCoord]_vars

\* componentwise a <= b
vec_le(a, b) == a.x <= b.x /\ a.y <= b.y /\ a.z <= b.z
\* the positions of the inclusive box of a range
Box(r) == {p \in [x : (r.min.x)..(r.max.x), y : (r.min.y)..(r.max.y), z : (r.min.z)..(r.max.z)] : TRUE}

\* C11: as_index maps every position into 0..CHUNK_DIM3-1 as
\* x + 32*z + 1024*y and try_from_index takes the index back to the position;
\* try_from_index maps every index below CHUNK_DIM3 to a position whose
\* as_index is that index.
C11_IndexRoundTrip ==
    /\ call.fn = "as_index" =>
          /\ call.out \in 0..(CHUNK_DIM3 - 1)
          /\ call.out = call.arg.x + 32 * call.arg.z + 1024 * call.arg.y
          /\ try_from_index(call.out) = Ok(call.arg)
    /\ (call.fn = "try_from_index" /\ call.arg < CHUNK_DIM3) =>
          /\ call.out.ok
          /\ as_index(call.out.val) = call.arg

\* C11 witness: as_index was applied to a position with three different
\* components, which tells the three strides apart
C11_Witness ==
    /\ call.fn = "as_index"
    /\ call.arg = IVec3_new(1, 2, 3)
    /\ call.out = 1 + 3 * 32 + 2 * 1024

\* C12: when the iterator of iter_xzy is exhausted it has yielded every
\* position of the inclusive box of the range exactly once and nothing else,
\* in strictly increasing as_index order.
C12_IterCoversBox ==
    iter.state = "done" =>
        /\ Len(iter.yielded) = Cardinality(Box(iter.range))
        /\ {iter.yielded[i] : i \in 1..Len(iter.yielded)} = Box(iter.range)
        /\ \A i \in 1..(Len(iter.yielded) - 1) :
              as_index(iter.yielded[i]) < as_index(iter.yielded[i + 1])

C17_FromCornersNormalizes ==
    call.fn = "from_corners" =>
        LET a == call.arg[1]
            b == call.arg[2]
            r == call.out
        IN  /\ \A p \in {a, b} : vec_le(r.min, p) /\ vec_le(p, r.max)
            /\ r.min.x \in {a.x, b.x} /\ r.min.y \in {a.y, b.y} /\ r.min.z \in {a.z, b.z}
            /\ r.max.x \in {a.x, b.x} /\ r.max.y \in {a.y, b.y} /\ r.max.z \in {a.z, b.z}
            /\ vec_le(r.min, r.max)
            /\ r.min \in InChunkPositions /\ r.max \in InChunkPositions
            /\ from_corners(b, a) = r

\* C17 witness: the corners were given in mixed order, a above b on one axis
\* and below it on another
C17_Witness ==
    /\ call.fn = "from_corners"
    /\ call.arg[1].x > call.arg[2].x
    /\ call.arg[1].y < call.arg[2].y
    /\ call.out.min.x = call.arg[2].x

Pow2(n) == 2^n
\* the bits of a u8 given as a number
u8_bits(n) == {i \in 0..7 : (n \div Pow2(i)) % 2 = 1}
\* the number a u8 stands for
RECURSIVE bits_value(_)
bits_value(b) == IF b = {} THEN 0
                 ELSE LET i == CHOOSE j \in b : TRUE IN Pow2(i) + bits_value(b \ {i})
\* `x as u64`, `x as u32`, `x as u8`: widening keeps the bits, narrowing truncates
as_u64(b) == b
as_u32(b) == b \cap 0..31
as_u8(b) == b \cap 0..7
\* u64 `<<`, `>>`, `|`, `&`
shl64(b, n) == {i + n : i \in b} \cap 0..63
shr64(b, n) == {i - n : i \in {j \in b : j >= n}}
bit_or(a, b) == a \cup b
bit_and(a, b) == a \cap b
\* the masks 0b111111, 0b11 and 0xFFFF_FFFF
MASK6 == 0..5
MASK2 == 0..1
MASK32 == 0..31

\* BlockId::from_bits: registry_id is a u32 (bit set), the others are u8 numbers
from_bits(registry_id, shape_id, solid_sides, render_mode) ==
    bit_or(bit_or(bit_or(shl64(as_u64(registry_id), 3),
                         as_u64(bit_and(u8_bits(shape_id), MASK6))),
                  shl64(as_u64(bit_and(u8_bits(solid_sides), MASK6)), 6)),
           shl64(as_u64(bit_and(u8_bits(render_mode), MASK2)), 12))

\* BlockId::registry_id_bits
registry_id_bits(self) == as_u32(bit_and(shr64(self, 32), MASK32))
\* BlockId::shape_id_bits
shape_id_bits(self) == bits_value(as_u8(bit_and(self, MASK6)))
\* BlockId::solid_sides_bits
solid_sides_bits(self) == bits_value(as_u8(bit_and(shr64(self, 6), MASK6)))
\* BlockId::render_mode_bits
render_mode_bits(self) == bits_value(as_u8(bit_and(shr64(self, 12), MASK2)))

\* ---------------------------------------------------------------- inputs
\* registry ids (u32): 0, 1, 2, 8, 2^31 and u32::MAX
BlockRegistryIds == {{}, {0}, {1}, {3}, {31}, 0..31}
\* shape and solid-side ids within their 6 bits, render modes within their 2
ShapeIds == 0..63
SolidSides == 0..63
RenderModes == 0..3
FieldTuples == BlockRegistryIds \X ShapeIds \X SolidSides \X RenderModes
\* the field tuples that are compared with each other
SampleTuples == BlockRegistryIds \X {0, 1, 8, 63} \X {0, 1, 63} \X {0, 1, 3}

from_bits_of(t) == from_bits(t[1], t[2], t[3], t[4])

InitBlock == RegIdle /\ FnIdle /\ ChunkIdle

\* BlockId::from_bits on one field tuple
call_from_bits ==
    /\ Fresh
    /\ \E t \in FieldTuples : CallFn("from_bits", t, from_bits_of(t))

\* BlockId::from_bits on a second field tuple, kept next to the first
call_from_bits_again ==
    /\ call.fn = "from_bits"
    /\ call.arg \in SampleTuples
    /\ \E t \in SampleTuples :
          CallFn("from_bits_twice", <<call.arg, t>>, <<call.out, from_bits_of(t)>>)

NextBlock ==
    \/ call_from_bits
    \/ call_from_bits_again

SpecBlock == InitBlock /\ [][NextBlock]_vars

\* C13: for in-range fields, the accessors applied to from_bits(...) return
\* the four fields that were packed.
C13_FieldsRoundTrip ==
    call.fn = "from_bits" =>
        /\ registry_id_bits(call.out) = call.arg[1]
        /\ shape_id_bits(call.out) = call.arg[2]
        /\ solid_sides_bits(call.out) = call.arg[3]
        /\ render_mode_bits(call.out) = call.arg[4]

\* C18: two different in-range field tuples never give equal BlockId values,
\* and two tuples that differ in registry_id only give the same shape,
\* solid_sides and render_mode bits.
C18_FromBitsInjective ==
    call.fn = "from_bits_twice" =>
        LET t1 == call.arg[1]
            t2 == call.arg[2]
            id1 == call.out[1]
            id2 == call.out[2]
        IN  /\ t1 /= t2 => id1 /= id2
            /\ (t1[2] = t2[2] /\ t1[3] = t2[3] /\ t1[4] = t2[4]) =>
                  /\ shape_id_bits(id1) = shape_id_bits(id2)
                  /\ solid_sides_bits(id1) = solid_sides_bits(id2)
                  /\ render_mode_bits(id1) = render_mode_bits(id2)

\* ===================================================================
\* Tiered palette storage (lib/gs_schemas/src/chunk.rs)
\* ===================================================================
\* chunk.rs declares the types only; get and set are modelled from their
\* contract (design section 4.4).  A PaletteData value is a record: its tier,
\* the palette (for a Singleton: the one value) and the per-cell index array
\* (for a Singleton: none).  Palette indexes start at 0.
\*
\* The sizes are scaled down: PaletteCells cells instead of CHUNK_DIM3, and
\* tier capacities PaletteCap16 < PaletteCap256 < PaletteCap32k instead of
\* 16, 256 and 32768.

\* ---------------------------------------------------------------- bounds
\* number of cells of a storage
PaletteCells == 2
\* palette capacity of the smallest tier; each tier above holds one more
PaletteCap16 == 2

PaletteCap256 == PaletteCap16 + 1
PaletteCap32k == PaletteCap16 + 2
\* the values stored: one more than the largest tier can hold
PaletteValues == 0..PaletteCap32k
CellIndexes == 0..(PaletteCells - 1)

capacity(tier) ==
    CASE tier = "Type16" -> PaletteCap16
      [] tier = "Type256" -> PaletteCap256
      [] tier = "Type32k" -> PaletteCap32k

next_tier(tier) ==
    CASE tier = "Type16" -> "Type256"
      [] tier = "Type256" -> "Type32k"

PaletteData(tier, palette, data) == [tier |-> tier, palette |-> palette, data |-> data, fatal |-> FALSE]

\* PaletteData::Singleton(value)
Singleton(value) == PaletteData("Singleton", <<value>>, <<>>)
\* a tiered storage whose cells all hold value
Filled(tier, value) == PaletteData(tier, <<value>>, [i \in 1..PaletteCells |-> 0])

\* position of value in the palette, or -1
palette_find(palette, value) ==
    IF \E k \in 1..Len(palette) : palette[k] = value
    THEN (CHOOSE k \in 1..Len(palette) : palette[k] = value) - 1
    ELSE 0 - 1

\* get(index): the cell's palette index resolved through the palette
palette_get(self, index) ==
    IF self.tier = "Singleton" THEN self.palette[1]
    ELSE self.palette[self.data[index + 1] + 1]

\* bug variant: every cell of the new array points at the new value
singleton_to_type16_all_new(self, index, value) ==
    PaletteData("Type16", <<self.palette[1], value>>, [i \in 1..PaletteCells |-> 1])

\* Singleton -> Type16: all cells are materialized with the old value, the
\* written cell gets the new one
singleton_to_type16(self, index, value) ==
    PaletteData("Type16", <<self.palette[1], value>>,
                [i \in 1..PaletteCells |-> IF i = index + 1 THEN 1 ELSE 0])

\* bug variant: the index array is not carried over to the wider tier
upgrade_drops_data(self) ==
    PaletteData(next_tier(self.tier), self.palette, [i \in 1..PaletteCells |-> 0])

\* transition to the next larger tier: same palette, same cells, wider index
upgrade(self) == PaletteData(next_tier(self.tier), self.palette, self.data)

\* append value to the palette and point the cell at it
palette_append(self, index, value) ==
    [self EXCEPT !.palette = Append(@, value), !.data[index + 1] = Len(self.palette)]

\* set(index, value)
palette_set(self, index, value) ==
    IF self.tier = "Singleton"
    THEN IF value = self.palette[1] THEN self
         ELSE singleton_to_type16(self, index, value)
    ELSE LET k == palette_find(self.palette, value)
         IN  IF k >= 0 THEN [self EXCEPT !.data[index + 1] = k]
             ELSE IF Len(self.palette) < capacity(self.tier)
                  THEN palette_append(self, index, value)
                  ELSE IF self.tier = "Type32k"
                       THEN \* no larger tier: fatal capacity error
                            [self EXCEPT !.fatal = TRUE]
                       ELSE palette_append(upgrade(self), index, value)

\* a storage of any tier, holding one value in every cell
InitPalette ==
    /\ RegIdle
    /\ FnIdle
    /\ \E v \in PaletteValues :
          /\ blocks \in {Singleton(v), Filled("Type16", v), Filled("Type256", v), Filled("Type32k", v)}
          /\ shadow = [i \in 1..PaletteCells |-> v]

\* set(index, value); `call` holds the result of the last get since the last set
chunk_set ==
    /\ ~blocks.fatal
    /\ \E i \in CellIndexes, v \in PaletteValues :
          /\ blocks' = palette_set(blocks, i, v)
          /\ shadow' = IF blocks'.fatal THEN shadow ELSE [shadow EXCEPT ![i + 1] = v]
    /\ call' = NoCall
    /\ UNCHANGED <<iter, reg_vars>>

\* get(index)
chunk_get ==
    /\ ~blocks.fatal
    /\ \E i \in CellIndexes : call' = FnCall("get", i, palette_get(blocks, i))
    /\ UNCHANGED <<iter, reg_vars, chunk_vars>>

NextPalette ==
    \/ chunk_set
    \/ chunk_get

SpecPalette == InitPalette /\ [][NextPalette]_vars

\* C15: get(index) returns the value most recently set for the index, or the
\* initial value if it was never set, whatever appends and tier upgrades have
\* happened.
C15_GetReturnsLastSet ==
    /\ \A i \in CellIndexes : palette_get(blocks, i) = shadow[i + 1]
    /\ call.fn = "get" => call.out = shadow[call.arg + 1]

\* C15 witness: the storage has been upgraded to the largest tier, its cells
\* hold different values, and a get has been answered
C15_Witness ==
    /\ blocks.tier = "Type32k"
    /\ Len(blocks.palette) = PaletteCap32k
    /\ \E i, j \in CellIndexes : shadow[i + 1] /= shadow[j + 1]
    /\ call.fn = "get"

\* C16: a Singleton stays as it is while the values written equal its value;
\* the write of a different value turns it into a Type16 storage in which
\* the written cell holds the new value and every other cell the old one.
C16_SingletonTransition ==
    [][blocks.tier = "Singleton" =>
          IF shadow' = shadow
          THEN blocks' = blocks
          ELSE /\ blocks'.tier = "Type16"
               /\ \A i \in CellIndexes :
                     palette_get(blocks', i) =
                         IF shadow'[i + 1] /= shadow[i + 1] THEN shadow'[i + 1]
                         ELSE blocks.palette[1]]_vars

\* C16 witness: a Type16 storage right after the transition: two palette
\* entries, one cell at the new value, the others at the old one
C16_Witness ==
    /\ blocks.tier = "Type16"
    /\ Len(blocks.palette) = 2
    /\ Cardinality({i \in CellIndexes : blocks.data[i + 1] = 1}) = 1
    /\ \E i \in CellIndexes : shadow[i + 1] = blocks.palette[1]
====
